---- MODULE Spec2Model ----
(***************************************************************************)
(* Model of src/main.py: the scroll-driven scraper (extract_data_from_row, *)
(* scrape_data) and the persistence wrapper main().                        *)
(*                                                                         *)
(* Text is a sequence of one-character strings, so that str.strip() is     *)
(* computed and not assumed.  The page is the environment: the heights it  *)
(* reports, the rows it renders and where a wheel event leaves the scroll  *)
(* position are chosen nondeterministically from bounded sets.             *)
(***************************************************************************)
EXTENDS Integers, Sequences, FiniteSets, TLC

VARIABLES
    pc,               \* position of the single main() invocation
    apw,              \* the async_playwright() context: "none", "running", "stopped"
    browser,          \* the launched browser: "none", "open", "closed"
    exc,              \* exception in flight / delivered: "none", "error", "cancel"
    doc_height,       \* page: actual document.body.scrollHeight
    scrollY,          \* page: actual window.scrollY
    page_height,      \* local page_height (line 39)
    window_height,    \* local window_height (line 40)
    date,             \* local date, the batch label (line 44)
    data_list,        \* scraped_data[date]["data_list"]
    unique_names,     \* local unique_names
    attempt,          \* local attempt
    num_visible_rows, \* local num_visible_rows
    i,                \* loop index of the for loop
    row,              \* the DOM row handed to extract_data_from_row (SpecExtract)
    chain_data,       \* local chain_data: None or Some(record)
    all_results,      \* local all_results of main()
    file,             \* output/result.json on disk
    at_bottom,        \* history: the last bottom test (line 68) was true
    first_seen,       \* history: some bottom test of the run was true
    streak,           \* history: every bottom test since the first true one was true
    since_first,      \* history: wheel steps issued after the first true bottom test
    reached_done,     \* history: the while loop was left by break
    discarded,        \* history: rows held by a run when an exception ended it
    probe_failed,     \* history: a probe raised inside the last extract_data_from_row
    file_before,      \* history: the file as it was when main() was invoked
    bottom_count,     \* history: bottom tests of the run that were true
    main_outcome,     \* how the last main() invocation ended: "none", "normal", "escaped"
    read_failed,      \* history: reading the existing file raised (lines 108-110)
    write_outcome,    \* history: what the write at lines 114-119 did
    run,              \* number of the scheduled run
    offers,           \* history: what the rows of this run's page were extracted to
    prev_offers,      \* history: offers of the run before
    prev_rows,        \* history: data_list returned by the run before
    prev_failed,      \* history: the run before ended in a failure
    procs,            \* overlapping main() invocations (SpecOverlap)
    table,            \* the virtualised table of the page (SpecTable)
    config_file,      \* config.json on disk (SpecConfig)
    config            \* what load_config returned (SpecConfig)

vars == <<pc, apw, browser, exc, doc_height, scrollY, page_height, window_height,
          date, data_list, unique_names, attempt, num_visible_rows, i, row,
          chain_data, all_results, file, at_bottom, first_seen, streak,
          since_first, reached_done, discarded, probe_failed, file_before,
          bottom_count, main_outcome, read_failed, write_outcome, run, offers,
          prev_offers, prev_rows, prev_failed, procs, table, config_file, config>>

scrape_vars == <<doc_height, scrollY, page_height, window_height, date, data_list,
                 unique_names, attempt, num_visible_rows, i, row, chain_data>>
hist_vars == <<at_bottom, first_seen, streak, since_first, reached_done, discarded,
               probe_failed, bottom_count>>
main_vars == <<all_results, file, file_before, read_failed, write_outcome>>
sched_vars == <<run, offers, prev_offers, prev_rows, prev_failed>>
ext_vars == <<procs, table, config_file, config>>
res_vars == <<apw, browser, exc>>

----------------------------------------------------------------------------
(* Bounds *)

MaxVisibleRows == 2      \* rows the page renders at one scroll position
MaxDocGrowth == 2        \* the document grows by at most this many scroll steps
StepCap == 5             \* the history counter since_first saturates here

(* Program constants *)

distance == 500          \* line 35
warmup_delta == 300      \* line 43: 50 * 6
initial_attempt == 3     \* line 47

(* The page: the heights it can report.  A document of 800 is at its bottom
   right after the warm-up scroll; each growth adds one scroll step. *)

WindowHeights == {500}
DocHeights == {800 + k * distance : k \in 0..MaxDocGrowth}

----------------------------------------------------------------------------
(* Text *)

Whitespace == {" ", "\t"}

NA == <<"N", "/", "A">>

RECURSIVE lstrip(_)
lstrip(s) ==
    IF s = <<>> THEN <<>>
    ELSE IF Head(s) \in Whitespace THEN lstrip(Tail(s)) ELSE s

RECURSIVE rstrip(_)
rstrip(s) ==
    IF s = <<>> THEN <<>>
    ELSE IF s[Len(s)] \in Whitespace THEN rstrip(SubSeq(s, 1, Len(s) - 1)) ELSE s

strip_keep(s) == s

strip(s) == rstrip(lstrip(s))

----------------------------------------------------------------------------
(* Option values: None is the empty sequence, Some(v) the one-element one *)

None == <<>>
Some(v) == <<v>>

----------------------------------------------------------------------------
(* extract_data_from_row *)

\* A sub-element of a row: st is "absent", "hidden" or "visible".
Elem(st, text) == [st |-> st, text |-> text]

\* `await e.text_content() if await e.is_visible() else "N/A"`, then .strip()
field_any(e) == IF e.st # "absent" THEN strip(e.text) ELSE NA

field(e) == IF e.st = "visible" THEN strip(e.text) ELSE NA

\* fails: a probe raised inside the try block (the except branch returns None)
extract_partial(r, fails) ==
    Some([Name |-> field(r.name), Protocols |-> field(r.protocols), TVL |-> field(r.tvl)])

extract_data_from_row(r, fails) ==
    IF fails THEN None
    ELSE Some([Name |-> field(r.name), Protocols |-> field(r.protocols), TVL |-> field(r.tvl)])

----------------------------------------------------------------------------
(* The accumulator of scrape_data (lines 58-62) *)

admit_no_dedup(cd, names) == cd # None /\ cd[1].Name # NA

admit_nonempty(cd, names) ==
    cd # None /\ cd[1].Name # NA /\ cd[1].Name # <<>> /\ cd[1].Name \notin names

admit(cd, names) == cd # None /\ cd[1].Name # NA /\ cd[1].Name \notin names

push_front(list, r) == <<r>> \o list

push(list, r) == Append(list, r)

----------------------------------------------------------------------------
(* The termination test of scrape_data (lines 68-73) *)

bottom(pos, wh, ph) == pos + wh >= ph

break_early(a) == a <= 1

break_at_once(a) == TRUE

should_break(a) == a <= 0

next_attempt_twice(a) == a - 2

next_attempt_up(a) == a + 1

next_attempt(a) == a - 1

\* line 53: range(num_visible_rows) has more to give
rows_left_short(k, n) == k + 1 < n

rows_left(k, n) == k < n

\* where a wheel event of delta leaves window.scrollY in a document of height d
ScrollTo(pos, delta, d, wh) ==
    LET top == IF d > wh THEN d - wh ELSE 0
    IN  IF pos + delta > top THEN top ELSE pos + delta

----------------------------------------------------------------------------
(* The rows the page can render *)

Row(link, n, p, t) == [link |-> link, name |-> n, protocols |-> p, tvl |-> t]

Absent == Elem("absent", <<>>)

PageRows ==
    { Row(TRUE,  Elem("visible", <<" ", "a">>),      Elem("visible", <<"p">>), Elem("visible", <<"t", " ">>)),
      Row(TRUE,  Elem("visible", <<"a", " ">>),      Elem("visible", <<"p">>), Absent),
      Row(TRUE,  Elem("visible", <<"b">>),           Elem("visible", <<"p">>), Elem("visible", <<"t", " ">>)),
      Row(TRUE,  Elem("visible", <<" ">>),           Elem("visible", <<"p">>), Elem("visible", <<"t", " ">>)),
      Row(TRUE,  Elem("hidden", <<"b">>),            Elem("visible", <<"p">>), Elem("visible", <<"t", " ">>)),
      Row(TRUE,  Elem("visible", <<"N", "/", "A">>), Elem("visible", <<"p">>), Elem("visible", <<"t", " ">>)),
      Row(FALSE, Elem("visible", <<"b">>),           Elem("visible", <<"p">>), Elem("visible", <<"t", " ">>)) }

NoRow == Row(FALSE, Absent, Absent, Absent)

----------------------------------------------------------------------------
(* output/result.json and main()'s reading of it (lines 95-110) *)

File(kind, items) == [kind |-> kind, items |-> items]

OldBatch == [date |-> 0, data_list |-> <<>>]

InitialFiles ==
    { File("missing", <<>>), File("object", <<OldBatch>>), File("list", <<OldBatch>>) }

\* a reading that starts afresh on everything but a list
load_list_only(f, unreadable) ==
    IF f.kind = "list" /\ ~unreadable THEN f.items ELSE <<>>

\* unreadable: open() or the decoding raised something else than JSONDecodeError
load(f, unreadable) ==
    IF f.kind = "missing" THEN <<>>
    ELSE IF unreadable THEN <<>>
    ELSE IF f.kind = "corrupt" THEN <<>>
    ELSE f.items

\* main() goes on to the persistence only when scrape_data returned (lines 90-91, 120)
persists_always(e) == TRUE

persists(e) == e = "none"

\* leaving `async with async_playwright()` stops Playwright and with it the browser
leaked(b) == b

torn_down(b) == IF b = "open" THEN "closed" ELSE b

\* `except Exception` (line 120) takes every error; a cancellation is a
\* BaseException and passes through
catches_nothing(e) == FALSE

catches(e) == e = "error"

----------------------------------------------------------------------------
(* The state before the scheduler invokes main() *)

\* no run has ended yet
FirstRun ==
    /\ run = 1 /\ main_outcome = "none"
    /\ read_failed = FALSE /\ write_outcome = "none"
    /\ offers = <<>> /\ prev_offers = <<>> /\ prev_rows = <<>> /\ prev_failed = FALSE

\* the parts of the state that belong to the other specifications
NoOverlap == procs = <<>>

NoTable == table = <<>>

NoConfig == config_file = <<>> /\ config = <<>>

Quiet(at, files) ==
    /\ pc = at
    /\ apw = "none" /\ browser = "none" /\ exc = "none"
    /\ doc_height = 0 /\ scrollY = 0
    /\ page_height = 0 /\ window_height = 0
    /\ date = 0
    /\ data_list = <<>> /\ unique_names = {}
    /\ attempt = 0
    /\ num_visible_rows = 0 /\ i = 0
    /\ row = NoRow /\ chain_data = None
    /\ all_results = <<>>
    /\ file \in files
    /\ file_before = file
    /\ at_bottom = FALSE /\ first_seen = FALSE /\ streak = TRUE
    /\ since_first = 0 /\ reached_done = FALSE /\ discarded = 0
    /\ probe_failed = FALSE /\ bottom_count = 0
    /\ FirstRun

Init == Quiet("idle", InitialFiles) /\ NoOverlap /\ NoTable /\ NoConfig

----------------------------------------------------------------------------
(* scrape_data *)

Now == 1

\* lines 30-32: enter the context, launch the browser, open the page
Launch ==
    /\ pc = "idle"
    /\ apw' = "running"
    /\ \E ok \in BOOLEAN :
          IF ok THEN browser' = "open" /\ exc' = exc /\ pc' = "goto"
                ELSE browser' = browser /\ exc' = "error" /\ pc' = "aexit"
    /\ UNCHANGED <<scrape_vars, hist_vars, main_vars, main_outcome, sched_vars, ext_vars>>

\* line 33: the page loads with some document height
Goto ==
    /\ pc = "goto"
    /\ doc_height' \in DocHeights
    /\ scrollY' = 0
    /\ pc' = "heights"
    /\ UNCHANGED <<res_vars, page_height, window_height, date, data_list, unique_names,
                   attempt, num_visible_rows, i, row, chain_data, hist_vars, main_vars,
                   main_outcome, sched_vars, ext_vars>>

\* lines 39-40: the two heights are read once
ReadHeights ==
    /\ pc = "heights"
    /\ page_height' = doc_height
    /\ window_height' \in WindowHeights
    /\ pc' = "warmup"
    /\ UNCHANGED <<res_vars, doc_height, scrollY, date, data_list, unique_names,
                   attempt, num_visible_rows, i, row, chain_data, hist_vars, main_vars,
                   main_outcome, sched_vars, ext_vars>>

\* lines 42-47: the warm-up scroll and the run's fresh state
Warmup ==
    /\ pc = "warmup"
    /\ scrollY' = ScrollTo(scrollY, warmup_delta, doc_height, window_height)
    /\ date' = Now
    /\ data_list' = <<>>
    /\ unique_names' = {}
    /\ attempt' = initial_attempt
    /\ pc' = "enumerate"
    /\ UNCHANGED <<res_vars, doc_height, page_height, window_height,
                   num_visible_rows, i, row, chain_data, hist_vars, main_vars,
                   main_outcome, sched_vars, ext_vars>>

\* lines 50-51: count the rows rendered at this scroll position
Enumerate ==
    /\ pc = "enumerate"
    /\ num_visible_rows' \in 0..MaxVisibleRows
    /\ i' = 0
    /\ pc' = "for"
    /\ UNCHANGED <<res_vars, doc_height, scrollY, page_height, window_height, date,
                   data_list, unique_names, attempt, row, chain_data, hist_vars, main_vars,
                   main_outcome, sched_vars, ext_vars>>

\* line 56, false: the row holds no chain link and is passed over
RowSkip ==
    /\ pc = "for" /\ rows_left(i, num_visible_rows)
    /\ \E r \in PageRows : ~r.link
    /\ i' = i + 1
    /\ UNCHANGED <<pc, res_vars, doc_height, scrollY, page_height, window_height, date,
                   data_list, unique_names, attempt, num_visible_rows, row, chain_data,
                   hist_vars, main_vars, main_outcome, sched_vars, ext_vars>>

\* lines 56-57: the row holds a chain link and is extracted
RowExtract ==
    /\ pc = "for" /\ rows_left(i, num_visible_rows)
    /\ \E r \in PageRows, fails \in BOOLEAN :
          /\ r.link
          /\ chain_data' = extract_data_from_row(r, fails)
          /\ probe_failed' = fails
    /\ pc' = "offer"
    /\ UNCHANGED <<res_vars, doc_height, scrollY, page_height, window_height, date,
                   data_list, unique_names, attempt, num_visible_rows, i, row,
                   at_bottom, first_seen, streak, since_first, reached_done, discarded,
                   bottom_count, main_vars, main_outcome, sched_vars, ext_vars>>

\* lines 58-62: the extracted row is offered to the accumulator
RowOffer ==
    /\ pc = "offer"
    /\ IF admit(chain_data, unique_names)
          THEN /\ unique_names' = unique_names \cup {chain_data[1].Name}
               /\ data_list' = push(data_list, chain_data[1])
          ELSE UNCHANGED <<unique_names, data_list>>
    /\ i' = i + 1
    /\ pc' = "for"
    /\ UNCHANGED <<res_vars, doc_height, scrollY, page_height, window_height, date,
                   attempt, num_visible_rows, row, chain_data, hist_vars, main_vars,
                   main_outcome, sched_vars, ext_vars>>

\* line 64: the scroll advance; the page may change its height while it scrolls
Wheel ==
    /\ pc = "for" /\ ~rows_left(i, num_visible_rows)
    /\ \E d \in DocHeights :
          /\ doc_height' = d
          /\ scrollY' = ScrollTo(scrollY, distance, d, window_height)
    /\ since_first' = IF first_seen /\ streak /\ since_first < StepCap
                         THEN since_first + 1 ELSE since_first
    /\ pc' = "read"
    /\ UNCHANGED <<res_vars, page_height, window_height, date, data_list, unique_names,
                   attempt, num_visible_rows, i, row, chain_data,
                   at_bottom, first_seen, streak, reached_done, discarded, probe_failed,
                   bottom_count, main_vars, main_outcome, sched_vars, ext_vars>>

\* lines 66-73: read the position, test for the bottom, break or spend a retry
ReadPosition ==
    /\ pc = "read"
    /\ LET current_scroll_position == scrollY
           hit == bottom(current_scroll_position, window_height, page_height)
       IN  /\ at_bottom' = hit
           /\ first_seen' = (first_seen \/ hit)
           /\ streak' = (streak /\ (first_seen => hit))
           /\ since_first' = IF streak' THEN since_first ELSE 0
           /\ bottom_count' = IF hit /\ bottom_count < StepCap
                                 THEN bottom_count + 1 ELSE bottom_count
           /\ IF hit /\ should_break(attempt)
                 THEN /\ pc' = "close"
                      /\ reached_done' = TRUE
                      /\ attempt' = attempt
                 ELSE /\ pc' = "enumerate"
                      /\ reached_done' = reached_done
                      /\ attempt' = IF hit THEN next_attempt(attempt) ELSE attempt
    /\ UNCHANGED <<res_vars, doc_height, scrollY, page_height, window_height, date,
                   data_list, unique_names, num_visible_rows, i, row, chain_data,
                   discarded, probe_failed, main_vars, main_outcome, sched_vars, ext_vars>>

\* the frame of scrape_data is gone: its locals, and the page with the browser
FrameDropped ==
    /\ page_height' = 0 /\ window_height' = 0
    /\ unique_names' = {} /\ attempt' = 0
    /\ num_visible_rows' = 0 /\ i' = 0 /\ chain_data' = None
    /\ row' = row

\* lines 75-77: browser.close() after the loop, and the batch is returned
Close ==
    /\ pc = "close"
    /\ browser' = "closed"
    /\ pc' = "aexit"
    /\ FrameDropped
    /\ UNCHANGED <<apw, exc, doc_height, scrollY, date, data_list, hist_vars, main_vars,
                   main_outcome, sched_vars, ext_vars>>

\* an awaited page or browser operation raises, or the task is cancelled there:
\* the batch built so far goes with the frame
RaisePcs == {"goto", "heights", "warmup", "enumerate", "for", "read", "close"}

Raise ==
    /\ pc \in RaisePcs
    /\ exc' \in {"error", "cancel"}
    /\ pc' = "aexit"
    /\ discarded' = Len(data_list)
    /\ FrameDropped
    /\ date' = 0 /\ data_list' = <<>>
    /\ UNCHANGED <<apw, browser, doc_height, scrollY, at_bottom, first_seen, streak,
                   since_first, reached_done, probe_failed, bottom_count, main_vars,
                   main_outcome, sched_vars, ext_vars>>

\* line 30, leaving the `async with` block, by return (line 77) or by exception;
\* lines 90-91 and 120-121: main() carries on only with a returned batch
AExit ==
    /\ pc = "aexit"
    /\ apw' = "stopped"
    /\ browser' = torn_down(browser)
    /\ doc_height' = 0 /\ scrollY' = 0
    /\ pc' = IF persists(exc) THEN "read_existing" ELSE "returned"
    /\ main_outcome' = IF persists(exc) THEN main_outcome
                       ELSE IF catches(exc) THEN "normal" ELSE "escaped"
    /\ UNCHANGED <<exc, page_height, window_height, date, data_list, unique_names,
                   attempt, num_visible_rows, i, row, chain_data, hist_vars, main_vars,
                   sched_vars, ext_vars>>

----------------------------------------------------------------------------
(* main(): the persistence *)

scraped_result == [date |-> date, data_list |-> data_list]

\* lines 95-110
ReadExisting ==
    /\ pc = "read_existing"
    /\ \E unreadable \in BOOLEAN :
          /\ all_results' = load(file, unreadable)
          /\ read_failed' = (unreadable /\ file.kind # "missing")
    /\ pc' = "write"
    /\ UNCHANGED <<res_vars, scrape_vars, hist_vars, file, file_before, write_outcome,
                   main_outcome, sched_vars, ext_vars>>

\* lines 112-119: append the batch and write the collection back; open() may fail
\* (the file is untouched) and json.dump may fail after open() truncated the file
Write ==
    /\ pc = "write"
    /\ all_results' = Append(all_results, scraped_result)
    /\ \E outcome \in {"written", "not_opened", "cut_short"} :
          /\ file' = CASE outcome = "written"    -> File("list", all_results')
                       [] outcome = "not_opened" -> file
                       [] outcome = "cut_short"  -> File("corrupt", <<>>)
          /\ write_outcome' = outcome
    /\ main_outcome' = "normal"
    /\ pc' = "returned"
    /\ UNCHANGED <<res_vars, scrape_vars, hist_vars, file_before, read_failed,
                   sched_vars, ext_vars>>

----------------------------------------------------------------------------

Next ==
    \/ Launch \/ Goto \/ ReadHeights \/ Warmup
    \/ Enumerate \/ RowSkip \/ RowExtract \/ RowOffer
    \/ Wheel \/ ReadPosition \/ Close
    \/ Raise \/ AExit
    \/ ReadExisting \/ Write

Spec == Init /\ [][Next]_vars

----------------------------------------------------------------------------
(* One run that goes on: no awaited operation raises after the launch, every
   step that can be taken is taken in the end, and a wheel event never leaves
   the position further up than it was: it advances by the step or stops at
   the highest position the document allows. *)

InitLive == Quiet("idle", {File("missing", <<>>)}) /\ NoOverlap /\ NoTable /\ NoConfig

LiveWheel == Wheel /\ scrollY' >= scrollY

NextLive ==
    \/ Launch \/ Goto \/ ReadHeights \/ Warmup
    \/ Enumerate \/ RowSkip \/ RowExtract \/ RowOffer
    \/ LiveWheel \/ ReadPosition \/ Close \/ AExit
    \/ ReadExisting \/ Write

SpecLive == InitLive /\ [][NextLive]_vars /\ WF_vars(NextLive)

----------------------------------------------------------------------------
(* extract_data_from_row on its own: every row shape, one call *)

NameTexts == { <<>>, <<" ", "a">>, <<"a", "\t">>, <<" ", "a", " ", "b", " ">>, NA }
ProtocolTexts == { <<"p">>, <<" ", "p", " ">> }
TvlTexts == { <<"t">>, <<"\t", " ">> }

Elems(texts) == {Absent} \cup {Elem(st, t) : st \in {"hidden", "visible"}, t \in texts}

AllRows ==
    {Row(TRUE, n, p, t) : n \in Elems(NameTexts), p \in Elems(ProtocolTexts), t \in Elems(TvlTexts)}

InitExtract ==
    /\ pc = "extract"
    /\ row \in AllRows
    /\ apw = "none" /\ browser = "none" /\ exc = "none"
    /\ doc_height = 0 /\ scrollY = 0
    /\ page_height = 0 /\ window_height = 0
    /\ date = 0
    /\ data_list = <<>> /\ unique_names = {}
    /\ attempt = 0
    /\ num_visible_rows = 0 /\ i = 0
    /\ chain_data = None
    /\ all_results = <<>>
    /\ file = File("missing", <<>>)
    /\ file_before = file
    /\ at_bottom = FALSE /\ first_seen = FALSE /\ streak = TRUE
    /\ since_first = 0 /\ reached_done = FALSE /\ discarded = 0
    /\ probe_failed = FALSE /\ bottom_count = 0
    /\ FirstRun /\ NoOverlap /\ NoTable /\ NoConfig

\* lines 5-26
ExtractCall ==
    /\ pc = "extract"
    /\ \E fails \in BOOLEAN :
          /\ chain_data' = extract_data_from_row(row, fails)
          /\ probe_failed' = fails
    /\ pc' = "extracted"
    /\ UNCHANGED <<res_vars, doc_height, scrollY, page_height, window_height, date,
                   data_list, unique_names, attempt, num_visible_rows, i, row,
                   at_bottom, first_seen, streak, since_first, reached_done, discarded,
                   bottom_count, main_vars, main_outcome, sched_vars, ext_vars>>

NextExtract == ExtractCall

SpecExtract == InitExtract /\ [][NextExtract]_vars

----------------------------------------------------------------------------
(* The scheduler (lines 156-163) invoking main() run after run.  scrape_data
   is one step here: it raises, or it returns the batch that its loop
   accumulates from the records the rows of the page are extracted to. *)

MaxRuns == 2             \* scheduled runs
MaxOffers == 2           \* rows offered to the accumulator during one run

\* an empty file is "corrupt": json.load raises JSONDecodeError on both
SchedFiles == InitialFiles \cup { File("corrupt", <<>>), File("list", <<>>) }

SchedRows ==
    { r \in PageRows : r.link /\ r.tvl.st = "visible" /\ r.name.text \in {<<" ", "a">>, <<"b">>} }

SchedRecords == { extract_data_from_row(r, fails) : r \in SchedRows, fails \in BOOLEAN }

OfferSeqs == UNION { [1..n -> SchedRecords] : n \in 0..MaxOffers }

\* the Names a run of lines 58-62 leaves in unique_names with its data_list
names_of(list) == { list[j].Name : j \in 1..Len(list) }

\* line 46: unique_names is a local, made anew by every call
run_names_kept(carried) == carried

run_names(carried) == {}

\* lines 53-62 applied to the records of one run, in the order they are offered
RECURSIVE accumulate(_, _, _)
accumulate(offs, names, list) ==
    IF offs = <<>> THEN list
    ELSE IF admit(Head(offs), names)
            THEN accumulate(Tail(offs), names \cup {Head(offs)[1].Name},
                            push(list, Head(offs)[1]))
            ELSE accumulate(Tail(offs), names, list)

InitSched == Quiet("idle", SchedFiles) /\ NoOverlap /\ NoTable /\ NoConfig

\* lines 29-77 and 90-91, 120-121: one call of scrape_data from main()
SchedScrape ==
    /\ pc = "idle"
    /\ apw' = "stopped" /\ browser' = torn_down("open")
    /\ \E e \in {"none", "error", "cancel"} :
          /\ exc' = e
          /\ pc' = IF persists(e) THEN "read_existing" ELSE "returned"
          /\ IF e = "none"
                THEN /\ \E offs \in OfferSeqs :
                           /\ offers' = offs
                           /\ data_list' = accumulate(offs, run_names(names_of(prev_rows)), <<>>)
                     /\ date' = run
                     /\ reached_done' = TRUE
                     /\ main_outcome' = main_outcome
                ELSE /\ offers' = <<>> /\ data_list' = <<>> /\ date' = 0
                     /\ reached_done' = FALSE
                     /\ main_outcome' = IF catches(e) THEN "normal" ELSE "escaped"
    /\ UNCHANGED <<doc_height, scrollY, page_height, window_height, unique_names, attempt,
                   num_visible_rows, i, row, chain_data, at_bottom, first_seen, streak,
                   since_first, discarded, probe_failed, bottom_count, main_vars,
                   run, prev_offers, prev_rows, prev_failed, ext_vars>>

RunFailed == exc = "error" \/ read_failed \/ write_outcome \in {"not_opened", "cut_short"}

\* line 161: the interval job fires again; main() is called with new locals
SchedTick ==
    /\ pc = "returned" /\ main_outcome = "normal" /\ run < MaxRuns
    /\ run' = run + 1
    /\ prev_offers' = offers /\ prev_rows' = data_list /\ prev_failed' = RunFailed
    /\ pc' = "idle"
    /\ apw' = "none" /\ browser' = "none" /\ exc' = "none"
    /\ date' = 0 /\ data_list' = <<>> /\ all_results' = <<>>
    /\ offers' = <<>> /\ reached_done' = FALSE
    /\ main_outcome' = "none" /\ read_failed' = FALSE /\ write_outcome' = "none"
    /\ file_before' = file
    /\ UNCHANGED <<doc_height, scrollY, page_height, window_height, unique_names, attempt,
                   num_visible_rows, i, row, chain_data, file, at_bottom, first_seen,
                   streak, since_first, discarded, probe_failed, bottom_count, ext_vars>>

NextSched == SchedScrape \/ ReadExisting \/ Write \/ SchedTick

SpecSched == InitSched /\ [][NextSched]_vars

----------------------------------------------------------------------------
(* One run over a virtualised table.  The page renders the rows that intersect
   the viewport; the table starts `top` below the top of the document, within
   the first viewport (first_div is in view at line 42 without scrolling), its
   n rows are `height` tall and carry distinct visible Names, and the document
   ends with the table and keeps its height. *)

MaxTableRows == 3        \* rows of the table

TableTops == {0, 300}
RowHeights == {250, 500}

Tables == { [top |-> t, height |-> h, n |-> n] :
                t \in TableTops, h \in RowHeights, n \in 1..MaxTableRows }

\* row j of the table: its Name is j times "a"
TableRow(j) ==
    Row(TRUE, Elem("visible", [k \in 1..j |-> "a"]), Elem("visible", <<"p">>),
        Elem("visible", <<"t", " ">>))

TableDocHeight(tb) == tb.top + tb.n * tb.height

\* lines 50-51: the rows in the DOM at scroll position y, top to bottom
RECURSIVE RenderedFrom(_, _, _, _)
RenderedFrom(tb, y, wh, j) ==
    IF j > tb.n THEN <<>>
    ELSE LET rowtop == tb.top + (j - 1) * tb.height
         IN  IF rowtop < y + wh /\ rowtop + tb.height > y
                THEN <<TableRow(j)>> \o RenderedFrom(tb, y, wh, j + 1)
                ELSE RenderedFrom(tb, y, wh, j + 1)

Rendered(tb, y, wh) == RenderedFrom(tb, y, wh, 1)

InitTable ==
    /\ Quiet("idle", {File("missing", <<>>)})
    /\ table \in Tables
    /\ NoOverlap /\ NoConfig

\* line 33
TableGoto ==
    /\ pc = "goto"
    /\ doc_height' = TableDocHeight(table)
    /\ scrollY' = 0
    /\ pc' = "heights"
    /\ UNCHANGED <<res_vars, page_height, window_height, date, data_list, unique_names,
                   attempt, num_visible_rows, i, row, chain_data, hist_vars, main_vars,
                   main_outcome, sched_vars, ext_vars>>

\* lines 50-51
TableEnumerate ==
    /\ pc = "enumerate"
    /\ num_visible_rows' = Len(Rendered(table, scrollY, window_height))
    /\ i' = 0
    /\ pc' = "for"
    /\ UNCHANGED <<res_vars, doc_height, scrollY, page_height, window_height, date,
                   data_list, unique_names, attempt, row, chain_data, hist_vars, main_vars,
                   main_outcome, sched_vars, ext_vars>>

\* lines 53-57: every rendered row holds a chain link; no probe fails
TableRowExtract ==
    /\ pc = "for" /\ rows_left(i, num_visible_rows)
    /\ chain_data' = extract_data_from_row(Rendered(table, scrollY, window_height)[i + 1], FALSE)
    /\ probe_failed' = FALSE
    /\ pc' = "offer"
    /\ UNCHANGED <<res_vars, doc_height, scrollY, page_height, window_height, date,
                   data_list, unique_names, attempt, num_visible_rows, i, row,
                   at_bottom, first_seen, streak, since_first, reached_done, discarded,
                   bottom_count, main_vars, main_outcome, sched_vars, ext_vars>>

\* line 64: the document keeps its height
TableWheel ==
    /\ pc = "for" /\ ~rows_left(i, num_visible_rows)
    /\ scrollY' = ScrollTo(scrollY, distance, doc_height, window_height)
    /\ since_first' = IF first_seen /\ streak /\ since_first < StepCap
                         THEN since_first + 1 ELSE since_first
    /\ pc' = "read"
    /\ UNCHANGED <<res_vars, doc_height, page_height, window_height, date, data_list,
                   unique_names, attempt, num_visible_rows, i, row, chain_data,
                   at_bottom, first_seen, streak, reached_done, discarded, probe_failed,
                   bottom_count, main_vars, main_outcome, sched_vars, ext_vars>>

NextTable ==
    \/ Launch \/ TableGoto \/ ReadHeights \/ Warmup
    \/ TableEnumerate \/ TableRowExtract \/ RowOffer
    \/ TableWheel \/ ReadPosition \/ Close \/ AExit

SpecTable == InitTable /\ [][NextTable]_vars

----------------------------------------------------------------------------
(* load_config (lines 124-153) on its own.  A dict is a function from its
   keys; config.json is missing or holds an object with some of the keys. *)

default_config ==
    [ interval_minutes |-> 5,
      proxy_settings   |-> [enabled |-> FALSE, server |-> "", username |-> "", password |-> ""] ]

ProxyKeys == DOMAIN default_config.proxy_settings

EmptyDict == [k \in {} |-> 0]

\* dict.update
update(d, other) ==
    [k \in DOMAIN d \cup DOMAIN other |-> IF k \in DOMAIN other THEN other[k] ELSE d[k]]

FileProxies ==
    { [enabled |-> e, server |-> "s", username |-> "u", password |-> "w"] : e \in BOOLEAN }

ProxyDicts == { [k \in S |-> p[k]] : S \in SUBSET ProxyKeys, p \in FileProxies }

FileIntervals == {1, 10}

LoadedConfigs ==
    LET Intervals == {EmptyDict} \cup { [interval_minutes |-> m] : m \in FileIntervals }
        Proxies == {EmptyDict} \cup { [proxy_settings |-> p] : p \in ProxyDicts }
    IN  { update(a, b) : a \in Intervals, b \in Proxies }

ConfigFiles ==
    { [exists |-> FALSE, content |-> EmptyDict] }
        \cup { [exists |-> TRUE, content |-> c] : c \in LoadedConfigs }

\* lines 136-152.  config is default_config itself (line 136), and after line
\* 141 config["proxy_settings"] is the loaded dict, which line 143 updates
\* with itself.  With no file, os.makedirs("") raises at line 147 and the
\* except branch returns the defaults; no file is created.
load_config(f) ==
    IF ~f.exists THEN default_config
    ELSE LET loaded_config == f.content
             merged == update(default_config, loaded_config)
         IN  IF "proxy_settings" \in DOMAIN loaded_config
                THEN [merged EXCEPT !["proxy_settings"] =
                         update(merged["proxy_settings"], loaded_config["proxy_settings"])]
                ELSE merged

InitConfig ==
    /\ Quiet("load_config", {File("missing", <<>>)})
    /\ config_file \in ConfigFiles
    /\ config = EmptyDict
    /\ NoOverlap /\ NoTable

\* line 157
LoadConfig ==
    /\ pc = "load_config"
    /\ config' = load_config(config_file)
    /\ pc' = "configured"
    /\ UNCHANGED <<res_vars, scrape_vars, hist_vars, main_vars, main_outcome, sched_vars,
                   procs, table, config_file>>

NextConfig == LoadConfig

SpecConfig == InitConfig /\ [][NextConfig]_vars

----------------------------------------------------------------------------
(* Two invocations of main() that overlap on one event loop.  A coroutine
   gives way only at an await: inside scrape_data (line 91), never between
   line 93 and line 119, where the file is read and written with blocking
   calls.  The scrape is two steps (the call and the return) with the other
   invocation free to run in between; the persistence is one step. *)

Procs == {1, 2}

IdleProc == [pc |-> "idle", batch |-> <<>>, seen |-> <<>>, ok |-> FALSE]

\* lines 96-99 read the file as it is when scrape_data has returned
read_stale(now, at_call) == at_call

read_point(now, at_call) == now

InitOverlap ==
    /\ Quiet("overlap", SchedFiles)
    /\ procs = [p \in Procs |-> IdleProc]
    /\ NoTable /\ NoConfig

overlap_rest == <<pc, res_vars, scrape_vars, hist_vars, all_results, file_before,
                  read_failed, write_outcome, main_outcome, sched_vars,
                  table, config_file, config>>

\* lines 90-91: main() is called and suspends in scrape_data
OverlapCall(p) ==
    /\ procs[p].pc = "idle"
    /\ procs' = [procs EXCEPT ![p].pc = "scraping", ![p].seen = file]
    /\ UNCHANGED <<file, overlap_rest>>

\* line 91 / 120: scrape_data returns its batch, or raises and main() returns
OverlapScrape(p) ==
    /\ procs[p].pc = "scraping"
    /\ \E e \in {"none", "error"} :
          IF persists(e)
             THEN \E offs \in OfferSeqs :
                     procs' = [procs EXCEPT
                                  ![p].pc = "persist",
                                  ![p].batch = <<[date |-> p,
                                                  data_list |-> accumulate(offs, run_names({}), <<>>)]>>]
             ELSE procs' = [procs EXCEPT ![p].pc = "returned"]
    /\ UNCHANGED <<file, overlap_rest>>

\* lines 93-119 in one piece: read the existing file, append, write back
OverlapPersist(p) ==
    /\ procs[p].pc = "persist"
    /\ \E unreadable \in BOOLEAN, outcome \in {"written", "not_opened", "cut_short"} :
          LET existing == read_point(file, procs[p].seen)
              results == Append(load(existing, unreadable), procs[p].batch[1])
          IN  /\ file' = CASE outcome = "written"    -> File("list", results)
                           [] outcome = "not_opened" -> file
                           [] outcome = "cut_short"  -> File("corrupt", <<>>)
              /\ procs' = [procs EXCEPT
                              ![p].pc = "returned",
                              ![p].ok = (outcome = "written"
                                            /\ ~(unreadable /\ existing.kind # "missing"))]
    /\ UNCHANGED overlap_rest

NextOverlap == \E p \in Procs : OverlapCall(p) \/ OverlapScrape(p) \/ OverlapPersist(p)

SpecOverlap == InitOverlap /\ [][NextOverlap]_vars

----------------------------------------------------------------------------
(* Properties *)

Names(list) == {list[j].Name : j \in 1..Len(list)}

IsPrefix(a, b) == Len(a) <= Len(b) /\ SubSeq(b, 1, Len(a)) = a

LoopPcs == {"enumerate", "for", "offer", "read"}

OfferStep == pc = "offer" /\ pc' = "for"

\* t is s without its leading and trailing whitespace
IsTrimOf(t, s) ==
    \E lo \in 0..Len(s) :
        /\ lo + Len(t) <= Len(s)
        /\ \A j \in 1..Len(t) : t[j] = s[lo + j]
        /\ \A j \in 1..Len(s) : (j <= lo \/ j > lo + Len(t)) => s[j] \in Whitespace
        /\ t # <<>> => (t[1] \notin Whitespace /\ t[Len(t)] \notin Whitespace)

\* what a field holds for a sub-element: the text trimmed if it is there and visible
FieldIs(v, e) == IF e.st = "visible" THEN IsTrimOf(v, e.text) ELSE v = NA

\* C1: at every point of a run the result list holds no two entries of equal Name
\* and no entry whose Name is "N/A".
C1_NoDuplicateNoSentinel ==
    \A j, k \in 1..Len(data_list) :
        /\ data_list[j].Name # NA
        /\ j # k => data_list[j].Name # data_list[k].Name

\* a row whose Name is already listed, with other fields, was offered again after
\* a scroll step spent a retry, and two rows are listed
C1_Witness ==
    /\ pc = "for" /\ attempt < initial_attempt
    /\ Len(data_list) >= 2
    /\ chain_data # None
    /\ \E j \in 1..Len(data_list) :
          data_list[j].Name = chain_data[1].Name /\ data_list[j] # chain_data[1]

\* C2: an offered row is appended, and its Name recorded, exactly when it is a
\* record whose Name is not "N/A" and not yet in unique_names (the empty Name
\* included); otherwise nothing changes; after every offer unique_names is the set
\* of Names of data_list.
C2_AdmittedIff ==
    [][OfferStep =>
         LET fresh == /\ chain_data # None
                      /\ chain_data[1].Name # NA
                      /\ chain_data[1].Name \notin unique_names
         IN  /\ fresh => /\ data_list' = Append(data_list, chain_data[1])
                          /\ unique_names' = unique_names \cup {chain_data[1].Name}
             /\ ~fresh => /\ data_list' = data_list
                           /\ unique_names' = unique_names
             /\ unique_names' = Names(data_list')]_vars

\* a row whose Name is empty after trimming has just been admitted
C2_Witness ==
    /\ pc = "for" /\ i >= 1
    /\ chain_data # None /\ chain_data[1].Name = <<>>
    /\ data_list # <<>> /\ data_list[Len(data_list)] = chain_data[1]
    /\ unique_names = Names(data_list)

\* C3: while the run goes on the result list only grows at its end: every step that
\* is not the run's abort leaves the old list a prefix of the new one.
C3_AppendOnly == [][exc' = "none" => IsPrefix(data_list, data_list')]_vars

\* the first listed Name was offered again after a second row was admitted and a
\* retry was spent, and it is still first
C3_Witness ==
    /\ pc = "for" /\ attempt < initial_attempt
    /\ Len(data_list) >= 2
    /\ chain_data # None /\ chain_data[1].Name = data_list[1].Name

C5_BudgetResets ==
    [][(pc = "read" /\ pc' \in {"enumerate", "close"}) =>
         /\ (at_bottom /\ scrollY + window_height < doc_height)
               => (pc' = "enumerate" /\ attempt' = attempt)
         /\ (first_seen /\ ~at_bottom /\ at_bottom') => attempt = initial_attempt]_vars

\* C6: inside the loop attempt starts at 3, never increases from one step to the
\* next and stays within 0..3.
C6_AttemptNonIncreasing ==
    [][pc' \in LoopPcs \cup {"close"} =>
         /\ attempt' \in 0..3
         /\ pc = "warmup" => attempt' = 3
         /\ pc \in LoopPcs => attempt' <= attempt]_vars

\* the budget is used up and the loop still runs
C6_Witness == pc = "enumerate" /\ attempt = 0 /\ first_seen

\* C7: when no probe fails the record is not None and each field is NA unless its
\* sub-element is present and visible, and then it is the element's trimmed text.
C7_FieldsIndependent ==
    (pc = "extracted" /\ ~probe_failed) =>
        /\ chain_data # None
        /\ FieldIs(chain_data[1].Name, row.name)
        /\ FieldIs(chain_data[1].Protocols, row.protocols)
        /\ FieldIs(chain_data[1].TVL, row.tvl)

\* a row without the TVL sub-element, with padded Name and Protocols
C7_Witness ==
    /\ pc = "extracted" /\ ~probe_failed
    /\ row.tvl.st = "absent"
    /\ row.name = Elem("visible", <<" ", "a", " ", "b", " ">>)
    /\ row.protocols = Elem("visible", <<" ", "p", " ">>)
    /\ chain_data = Some([Name |-> <<"a", " ", "b">>, Protocols |-> <<"p">>, TVL |-> NA])

\* C8: a failed probe makes extract_data_from_row return None without raising, the
\* offer of that result changes neither data_list nor unique_names, and the loop
\* moves on to the next row.
C8_FailedProbeSkipped ==
    [][/\ (pc = "for" /\ pc' = "offer" /\ probe_failed')
            => (chain_data' = None /\ exc' = "none")
       /\ (pc = "offer" /\ probe_failed)
            => /\ pc' = "for" /\ i' = i + 1 /\ exc' = "none"
               /\ data_list' = data_list /\ unique_names' = unique_names]_vars

\* after a failed probe the run has rows listed, a retry spent, and a further row of
\* the same scroll position to go
C8_Witness ==
    /\ pc = "for" /\ probe_failed /\ chain_data = None
    /\ i < num_visible_rows
    /\ data_list # <<>> /\ attempt < initial_attempt

\* C9: once scrape_data is left, by return or by exception, Playwright is stopped
\* and the browser is not open.
C9_Released ==
    pc \in {"read_existing", "write", "returned"} => (apw = "stopped" /\ browser # "open")

\* an error raised inside the loop reached main() with the browser closed
C9_Witness ==
    /\ pc = "returned" /\ exc = "error"
    /\ first_seen /\ browser = "closed" /\ apw = "stopped"

\* C10: unless the loop was left by break and nothing raised, the file is as it was
\* when main() was invoked.
C10_AbortedNotPersisted == (exc # "none" \/ ~reached_done) => file = file_before

\* a cancelled run that held two rows came back with the file untouched
C10_Witness ==
    /\ pc = "returned" /\ exc = "cancel" /\ ~reached_done
    /\ discarded >= 2 /\ file = file_before /\ file.kind = "list"


\* C11: no failure of a scheduled run (scrape_data raising an error, the read
\* of the existing file failing, the write failing) leaves main(): main() has
\* returned normally, the scheduler can fire the job again, and the run after
\* a failed run returns exactly what its own page offers, first occurrences in
\* order, whatever the failed run held.
FirstSeen(offs) ==
    LET Kept(j) == /\ offs[j] # None
                   /\ offs[j][1].Name # NA
                   /\ \A k \in 1..(j - 1) : offs[k] = None \/ offs[k][1].Name # offs[j][1].Name
        RECURSIVE From(_)
        From(j) == IF j > Len(offs) THEN <<>>
                   ELSE IF Kept(j) THEN <<offs[j][1]>> \o From(j + 1) ELSE From(j + 1)
    IN  From(1)

C11_FailuresContained ==
    /\ (pc = "returned" /\ RunFailed) =>
            /\ main_outcome = "normal"
            /\ run < MaxRuns => ENABLED SchedTick
    /\ (prev_failed /\ reached_done) => data_list = FirstSeen(offers)

C11_Witness ==
    /\ run = 2 /\ prev_failed /\ pc = "returned" /\ reached_done
    /\ read_failed /\ write_outcome = "cut_short" /\ main_outcome = "normal"
    /\ Len(data_list) = 2

\* C12: after a successful run (scrape_data returned, the existing file was
\* read without an error other than a JSON decoding error, the write went
\* through) the file holds prior ++ [new batch]: prior is the list the file
\* held, or the one-element list of the single object it held (written
\* length 2), or empty when the file was missing, empty or corrupt (written
\* length 1).
Prior(f) ==
    CASE f.kind = "list"   -> f.items
      [] f.kind = "object" -> <<f.items[1]>>
      [] OTHER             -> <<>>

RunSucceeded == pc = "returned" /\ exc = "none" /\ ~read_failed /\ write_outcome = "written"

C12_MergeResult ==
    RunSucceeded =>
        /\ file.kind = "list"
        /\ file.items = Prior(file_before) \o <<[date |-> date, data_list |-> data_list]>>
        /\ file_before.kind = "object" => Len(file.items) = 2
        /\ file_before.kind \in {"missing", "corrupt"} => Len(file.items) = 1

C12_Witness ==
    /\ RunSucceeded /\ file_before.kind = "object"
    /\ Len(file.items) = 2 /\ file.items[1] = OldBatch /\ Len(file.items[2].data_list) = 2

\* C13: append-only snapshots: whatever a run does (succeed, fail to scrape,
\* fail to read the existing file, fail to write), the batches the collection
\* held before the step are still its first batches, unchanged and in the same
\* order, after the step.
Batches(f) == IF f.kind = "list" THEN f.items ELSE <<>>

C13_AppendOnlySnapshots == [][IsPrefix(Batches(file), Batches(file'))]_vars

\* C14: complete snapshot.  As stated: over a table whose document keeps its
\* height and whose windows at successive scroll positions leave no row out,
\* the batch of a finished run holds every row of the table once, in table
\* order.
TableRecords(tb) == [j \in 1..tb.n |-> extract_data_from_row(TableRow(j), FALSE)[1]]

FirstRowKept(tb) ==
    \A wh \in WindowHeights :
        tb.top + tb.height > ScrollTo(0, warmup_delta, TableDocHeight(tb), wh)

C15_DefaultsApplied ==
    pc = "configured" =>
        LET loaded == config_file.content
            proxy == IF "proxy_settings" \in DOMAIN loaded
                        THEN loaded.proxy_settings ELSE EmptyDict
        IN  /\ DOMAIN config = DOMAIN default_config
            /\ config.interval_minutes =
                  IF "interval_minutes" \in DOMAIN loaded THEN loaded.interval_minutes
                  ELSE default_config.interval_minutes
            /\ DOMAIN config.proxy_settings = ProxyKeys
            /\ \A k \in ProxyKeys :
                  config.proxy_settings[k] =
                      IF k \in DOMAIN proxy THEN proxy[k] ELSE default_config.proxy_settings[k]

\* C16: order within a run.  Rows are enumerated only after the warm-up scroll
\* and the run's fresh state (lines 43-47); the scroll advance of an iteration
\* is issued only when every row rendered at the position has been visited;
\* the bottom test is made only at the reading that follows a scroll advance;
\* and after the break no row is offered and no scroll is issued: the loop is
\* not entered again, the batch stays as it is (or goes with the frame when
\* browser.close() raises) and the position moves only when the page is gone.
EnumerateStep == pc = "enumerate" /\ pc' = "for"

WheelStep == pc = "for" /\ pc' = "read"

BottomTested == at_bottom' # at_bottom \/ bottom_count' # bottom_count \/ attempt' < attempt

C16_Ordering ==
    [][ /\ EnumerateStep => (date = Now /\ attempt \in 0..initial_attempt /\ i' = 0)
        /\ WheelStep => i = num_visible_rows
        /\ pc' = "read" => WheelStep
        /\ (BottomTested /\ pc' \in LoopPcs \cup {"close"}) => pc = "read"
        /\ reached_done =>
              /\ pc' \notin LoopPcs
              /\ data_list' = data_list \/ (data_list' = <<>> /\ exc' # "none")
              /\ scrollY' = scrollY \/ (scrollY' = 0 /\ apw' = "stopped")
      ]_vars

C16_Witness ==
    /\ pc = "close" /\ reached_done /\ bottom_count = 4
    /\ Len(data_list) = 2 /\ num_visible_rows = 2 /\ i = 2 /\ scrollY > warmup_delta

\* C17: the identity state belongs to one run.  In a later run a Name is
\* admitted whenever the page offers it in an admissible record, also when an
\* earlier run admitted it; nothing of the earlier batch shows in the later
\* one unless the page offers it again; and two runs over pages that offer the
\* same records return the same rows in the same order.
Admissible(cd) == cd # None /\ cd[1].Name # NA

OfferedNames(offs) == { offs[j][1].Name : j \in { k \in 1..Len(offs) : Admissible(offs[k]) } }

C17_RunScoped ==
    (run >= 2 /\ reached_done) =>
        /\ Names(data_list) = OfferedNames(offers)
        /\ offers = prev_offers => data_list = prev_rows

C17_Witness ==
    /\ run = 2 /\ reached_done /\ pc = "returned" /\ write_outcome = "written"
    /\ offers = prev_offers /\ Len(prev_rows) = 2 /\ data_list = prev_rows
    /\ Len(file.items) >= 2

\* C18: the retry budget is one count over the whole run.  The loop is left
\* exactly at the 4th bottom test of the run that is true, whether or not the
\* true tests follow each other, and never at a test that is false.
C18_CumulativeBudget ==
    /\ reached_done <=> bottom_count = initial_attempt + 1
    /\ reached_done => at_bottom
    /\ pc \in LoopPcs => bottom_count = initial_attempt - attempt

C18_Witness ==
    /\ pc = "close" /\ reached_done /\ ~streak
    /\ bottom_count = initial_attempt + 1 /\ scrollY + window_height >= page_height
    /\ scrollY + window_height < doc_height

\* C19: termination.  When no operation raises and every scroll step advances
\* the position or leaves it at the highest reachable one, the run leaves the
\* loop by break in the end (and then returns its batch), also when the
\* document changes its height during the run.
C19_Terminates == <>(reached_done \/ exc # "none")

\* C20: overlapping invocations lose no batch.  When both invocations have
\* returned and each scraped, read and wrote without a failure, the file holds
\* what it held before them followed by the two new batches, one each.
BothSucceeded == \A p \in Procs : procs[p].pc = "returned" /\ procs[p].ok

C20_NoLostBatch ==
    BothSucceeded =>
        /\ file.kind = "list"
        /\ IsPrefix(Prior(file_before), file.items)
        /\ Len(file.items) = Len(Prior(file_before)) + 2
        /\ \A p \in Procs :
              \E j \in (Len(Prior(file_before)) + 1)..Len(file.items) :
                  file.items[j] = procs[p].batch[1]

C20_Witness ==
    /\ BothSucceeded
    /\ \A p \in Procs : procs[p].seen = file_before
    /\ file_before = File("list", <<OldBatch>>)
    /\ Len(file.items) = 3 /\ file.items[2].date = 2 /\ file.items[3].date = 1

====
